---- MODULE Spec2Model ----
(***************************************************************************)
(* Model of the Signing Authority Lifecycle Manager:                       *)
(* DynamicServerWalletProvider (wallet record store, audit trail, signing  *)
(* operations, rotation, revocation) and its remote call client            *)
(* callDynamicWithRetry.  Every await of the TypeScript code is one        *)
(* atomic step of a process; the code between two awaits runs atomically   *)
(* (single-threaded event loop), several calls interleave at the awaits.   *)
(***************************************************************************)
EXTENDS Integers, Sequences, FiniteSets, TLC

\* ---------------------------------------------------------------- bounds

\* Number of calls that can be in flight at the same time.
MaxProcs == 2
\* Total number of provider operations started in one behaviour.
MaxOps == 3
MaxCalls == 4

\* ------------------------------------------------------ program constants

\* Mutant: one retry more.
MAX_RETRIES_OneMore == 3 + 1

MAX_RETRIES == 3
BASE_DELAY_MS == 500
DEFAULT_RETRY_AFTER == 2
ZERO_ADDRESS == 0

Users == {"u1", "u2"}
Procs == 1..MaxProcs

SigningOps == {"signTypedData", "signMessage", "executeTransaction"}

\* ------------------------------------------------------------- variables

VARIABLES
  serverWallet,   \* prisma.serverWallet: set of rows, userId unique
  wallet,         \* prisma.wallet: compatibility rows keyed by (userId, type)
  copyProfile,    \* prisma.copyProfile: [user -> [profile -> status]]
  auditLog,       \* prisma.auditLog: sequence of entries, append only
  nextWalletId,   \* remote service: id of the next wallet it creates
  opCount,        \* number of operations started so far (source of fresh UUIDs)
  frame,          \* [proc -> call frame of the operation it runs]
  phase,          \* history: what has been called for each user so far
  client,         \* state of one stand-alone callDynamicWithRetry call
  factory         \* module state of the provider factory, and its calls

vars == <<serverWallet, wallet, copyProfile, auditLog, nextWalletId, opCount,
          frame, phase, client, factory>>

\* ------------------------------------------------------------ data model

\* "no row" result of findUnique (null).
NoRow ==
  [id |-> 0, userId |-> "", dynamicServerWalletId |-> 0,
   address |-> ZERO_ADDRESS, status |-> "NONE"]

\* Address the remote service reports for the wallet with the given id.
AddressOf(walletId) == 1000 + walletId

\* `pending-${randomUUID()}`: a fresh placeholder id, never a remote id.
PendingId(uuid) == 0 - uuid

NoError == [isAppError |-> FALSE, code |-> "", message |-> ""]
AppError(code, message) == [isAppError |-> TRUE, code |-> code, message |-> message]
PlainError(message) == [isAppError |-> FALSE, code |-> "Error", message |-> message]

\* What a call gives its caller: a value (an address, a signature, a
\* transaction hash with its status, or nothing) or a thrown error.
NoResult == [kind |-> "none", value |-> 0, status |-> "", error |-> NoError]
Ok(value) == [kind |-> "ok", value |-> value, status |-> "", error |-> NoError]
OkTx(hash, status) == [kind |-> "ok", value |-> hash, status |-> status, error |-> NoError]
Err(error) == [kind |-> "error", value |-> 0, status |-> "", error |-> error]

\* Signature (or transaction hash) the remote service produces with a wallet.
SignatureOf(walletId) == 2000 + walletId

NoResponse == [id |-> 0, address |-> ZERO_ADDRESS, status |-> ""]

IdleFrame ==
  [op |-> "", userId |-> "", pc |-> "idle", uuid |-> 0,
   sw |-> NoRow, oldWallet |-> NoRow, isRotation |-> FALSE,
   attempt |-> 0, remote |-> <<>>, audits |-> 0, response |-> NoResponse,
   error |-> NoError, result |-> NoResult]

\* ----------------------------------------------------- persistence layer

\* prisma.serverWallet.findUnique({ where: { userId } })
FindUnique(u) ==
  IF \E r \in serverWallet : r.userId = u
  THEN CHOOSE r \in serverWallet : r.userId = u
  ELSE NoRow

\* Mutant: the table has no unique index on userId.
UniqueConflict_NoIndex(u) == FALSE

\* The unique index on serverWallet.userId that findUnique relies on:
\* an insert for a user that already has a row is rejected.
UniqueConflict(u) == \E r \in serverWallet : r.userId = u

\* Mutant: a new row starts as CREATING.
CreatedRow_Creating(u, walletId, address, status) ==
  [id |-> Cardinality(serverWallet) + 1, userId |-> u,
   dynamicServerWalletId |-> walletId, address |-> address, status |-> "CREATING"]

\* prisma.serverWallet.create: a new row with a fresh id.
CreatedRow(u, walletId, address, status) ==
  [id |-> Cardinality(serverWallet) + 1, userId |-> u,
   dynamicServerWalletId |-> walletId, address |-> address, status |-> status]

\* Mutant: the status-only update also resets the address.
UpdateStatus_ResetsAddress(id, status) ==
  {IF r.id = id THEN [r EXCEPT !.status = status, !.address = ZERO_ADDRESS] ELSE r
     : r \in serverWallet}

\* Mutant: the status-only update writes READY whatever it is given.
UpdateStatus_Ready(id, status) ==
  {IF r.id = id THEN [r EXCEPT !.status = "READY"] ELSE r : r \in serverWallet}

\* prisma.serverWallet.update({ where: { id }, data: { status } })
UpdateStatus(id, status) ==
  {IF r.id = id THEN [r EXCEPT !.status = status] ELSE r : r \in serverWallet}

\* Mutant: the update after the poll writes the status only.
UpdateStatusAddress_StatusOnly(id, status, address) ==
  {IF r.id = id THEN [r EXCEPT !.status = status] ELSE r : r \in serverWallet}

\* prisma.serverWallet.update({ where: { id }, data: { status, address } })
UpdateStatusAddress(id, status, address) ==
  {IF r.id = id THEN [r EXCEPT !.status = status, !.address = address] ELSE r
     : r \in serverWallet}

\* Mutant: the update after a creation does not write the remote wallet id.
UpdateWallet_KeepWalletId(id, walletId, address, status) ==
  {IF r.id = id THEN [r EXCEPT !.address = address, !.status = status] ELSE r
     : r \in serverWallet}

\* prisma.serverWallet.update({ where: { id },
\*   data: { dynamicServerWalletId, address, status } })
UpdateWallet(id, walletId, address, status) ==
  {IF r.id = id
   THEN [r EXCEPT !.dynamicServerWalletId = walletId, !.address = address,
                  !.status = status]
   ELSE r : r \in serverWallet}

\* prisma.wallet.upsert on the key (userId, 'SERVER_WALLET')
UpsertWallet(u, address) ==
  {w \in wallet : ~(w.userId = u /\ w.type = "SERVER_WALLET")}
    \cup {[userId |-> u, type |-> "SERVER_WALLET", address |-> address]}

\* Mutant: the update is not restricted to the user.
PauseProfiles_AllUsers(u) ==
  [v \in Users |->
     [k \in DOMAIN copyProfile[v] |->
        IF copyProfile[v][k] = "ENABLED" THEN "PAUSED" ELSE copyProfile[v][k]]]

\* prisma.copyProfile.updateMany({ where: { userId, status: 'ENABLED' },
\*   data: { status: 'PAUSED' } })
PauseProfiles(u) ==
  [v \in Users |->
     IF v = u
     THEN [k \in DOMAIN copyProfile[v] |->
             IF copyProfile[v][k] = "ENABLED" THEN "PAUSED" ELSE copyProfile[v][k]]
     ELSE copyProfile[v]]

\* prisma.auditLog.create
AuditEntry(u, action, correlationId, details) ==
  [userId |-> u, action |-> action, correlationId |-> correlationId,
   details |-> details]

\* Mutant: the new entry is put at the head of the log.
Audit_AtHead(u, action, correlationId, details) ==
  <<AuditEntry(u, action, correlationId, details)>> \o auditLog

Audit(u, action, correlationId, details) ==
  Append(auditLog, AuditEntry(u, action, correlationId, details))

\* --------------------------------------------------- remote call client

\* One HTTP exchange as fetch reports it.  status 0: fetch rejected (network
\* error or AbortSignal.timeout); retryAfter: the Retry-After header, <<>>
\* when absent; jsonOk: whether res.json() parses the body.
Response(status, retryAfter, jsonOk) ==
  [status |-> status, retryAfter |-> retryAfter, jsonOk |-> jsonOk]

Responses ==
  {Response(200, <<>>, TRUE), Response(200, <<>>, FALSE),
   Response(429, <<>>, TRUE), Response(429, <<1>>, TRUE), Response(429, <<3>>, TRUE),
   Response(500, <<>>, TRUE), Response(0, <<>>, TRUE)}

\* Responses the provider operations are run against.
ProviderResponses ==
  {Response(200, <<>>, TRUE), Response(429, <<>>, TRUE), Response(500, <<>>, TRUE)}

\* Mutant: the Retry-After header is not read.
RetryAfterSeconds_IgnoreHeader(res) == DEFAULT_RETRY_AFTER

\* parseInt(res.headers.get('Retry-After') ?? '2', 10)
RetryAfterSeconds(res) ==
  IF res.retryAfter = <<>> THEN DEFAULT_RETRY_AFTER ELSE res.retryAfter[1]

\* Mutant: the backoff grows linearly.
BackoffDelay_Linear(attempt) == BASE_DELAY_MS * (attempt + 1)

\* BASE_DELAY_MS * Math.pow(2, attempt)
BackoffDelay(attempt) == BASE_DELAY_MS * (2 ^ attempt)

\* res.ok
IsOk(res) == res.status >= 200 /\ res.status <= 299

\* attempt < MAX_RETRIES, the test guarding both sleeps
RetriesLeft(attempt) == attempt < MAX_RETRIES

Returned == [action |-> "return", delay |-> 0, error |-> NoError]
Retry(delay) == [action |-> "retry", delay |-> delay, error |-> NoError]
Thrown(error) == [action |-> "throw", delay |-> 0, error |-> error]

\* Mutant: the error of the last attempt is replaced by a generic one.
CatchOutcome_Generic(attempt, error) ==
  IF error.isAppError THEN Thrown(error)
  ELSE IF RetriesLeft(attempt) THEN Retry(BackoffDelay(attempt))
  ELSE Thrown(PlainError("Exhausted retries for Dynamic API call"))

\* The catch block of the loop body.
CatchOutcome(attempt, error) ==
  IF error.isAppError THEN Thrown(error)
  ELSE IF RetriesLeft(attempt) THEN Retry(BackoffDelay(attempt))
  ELSE Thrown(error)

\* Mutant: a 429 on the last attempt is thrown as a plain error.
AttemptOutcome_Plain429(attempt, res) ==
  IF res.status = 0 THEN CatchOutcome(attempt, PlainError("NetworkError"))
  ELSE IF res.status = 429 THEN
    IF RetriesLeft(attempt) THEN Retry(RetryAfterSeconds(res) * 1000)
    ELSE CatchOutcome(attempt, PlainError("Dynamic API rate limited"))
  ELSE IF ~IsOk(res) THEN CatchOutcome(attempt, PlainError("HttpError"))
  ELSE IF ~res.jsonOk THEN CatchOutcome(attempt, PlainError("SyntaxError"))
  ELSE Returned

\* The try block of the loop body on one response.
AttemptOutcome(attempt, res) ==
  IF res.status = 0 THEN CatchOutcome(attempt, PlainError("NetworkError"))
  ELSE IF res.status = 429 THEN
    IF RetriesLeft(attempt) THEN Retry(RetryAfterSeconds(res) * 1000)
    ELSE CatchOutcome(attempt, AppError("RATE_LIMITED", "Dynamic API rate limited"))
  ELSE IF ~IsOk(res) THEN CatchOutcome(attempt, PlainError("HttpError"))
  ELSE IF ~res.jsonOk THEN CatchOutcome(attempt, PlainError("SyntaxError"))
  ELSE Returned

\* One iteration of the for loop: the body, then attempt++ and the loop test
\* attempt <= MAX_RETRIES, after which the function throws.
LoopStep(attempt, res) ==
  LET o == AttemptOutcome(attempt, res) IN
  IF o.action = "retry" /\ ~(attempt + 1 <= MAX_RETRIES)
  THEN [action |-> "throw", delay |-> o.delay,
        error |-> PlainError("Exhausted retries for Dynamic API call")]
  ELSE o

\* A stand-alone call of callDynamicWithRetry, its responses chosen freely.
ClientIdle ==
  [pc |-> "idle", attempt |-> 0, requests |-> 0, sleeps |-> <<>>,
   responses |-> <<>>, error |-> NoError]

ClientCall ==
  /\ client.pc = "idle"
  /\ client' = [client EXCEPT !.pc = "running"]
  /\ UNCHANGED <<serverWallet, wallet, copyProfile, auditLog, nextWalletId,
                 opCount, frame, phase, factory>>

ClientAttempt ==
  /\ client.pc = "running"
  /\ \E res \in Responses :
       LET o == LoopStep(client.attempt, res)
           c1 == [client EXCEPT !.requests = @ + 1,
                                !.responses = Append(@, res)]
       IN client' =
            IF o.action = "return" THEN [c1 EXCEPT !.pc = "returned"]
            ELSE IF o.action = "retry"
              THEN [c1 EXCEPT !.attempt = @ + 1, !.sleeps = Append(@, o.delay)]
            ELSE [c1 EXCEPT !.pc = "thrown", !.error = o.error,
                            !.sleeps = IF o.delay > 0 THEN Append(@, o.delay) ELSE @]
  /\ UNCHANGED <<serverWallet, wallet, copyProfile, auditLog, nextWalletId,
                 opCount, frame, phase, factory>>

\* ---------------------------------------------------- provider factory

\* What getConfig() gives: DYNAMIC_API_KEY is undefined ("absent"), the
\* empty string ("empty") or a credential ("set"); NODE_ENV is the run mode.
Keys == {"absent", "empty", "set"}
Envs == {"production", "development", "test"}
Config(key, env) == [DYNAMIC_API_KEY |-> key, NODE_ENV |-> env]

\* The persistence handles a caller may pass.
PrismaClients == {"prismaA", "prismaB"}

\* Truthiness of config.DYNAMIC_API_KEY: undefined and '' are falsy.
Truthy(key) == key = "set"

\* _provider = null
NoProvider ==
  [id |-> 0, kind |-> "none", prisma |-> "", config |-> Config("absent", "")]

\* new DynamicServerWalletProvider(prisma) / new Mock...(prisma): a new
\* object, identified by the number of objects constructed before it; the
\* configuration it was selected under is kept with it.
NewProvider(kind, prisma) ==
  [id |-> factory.created + 1, kind |-> kind, prisma |-> prisma,
   config |-> factory.config]

\* Mutant: the credential alone selects the remote-backed provider.
SelectKind_KeyOnly(config) ==
  IF Truthy(config.DYNAMIC_API_KEY) THEN "dynamic" ELSE "mock"

\* config.DYNAMIC_API_KEY && config.NODE_ENV === 'production'
SelectKind(config) ==
  IF Truthy(config.DYNAMIC_API_KEY) /\ config.NODE_ENV = "production"
  THEN "dynamic" ELSE "mock"

\* The factory before its first call.  passed and returned: the handle the
\* last call was given and what it returned; first: what the first call
\* since the last reset returned.
FactoryIdle ==
  [provider |-> NoProvider, config |-> Config("absent", "development"),
   created |-> 0, calls |-> 0, passed |-> "", returned |-> NoProvider,
   first |-> NoProvider]

\* Mutant: the cached instance is reused only for the handle it was built
\* with.
GetTradingAuthorityProvider_PerHandle(prisma) ==
  /\ factory.calls < MaxCalls
  /\ LET cached == factory.provider # NoProvider /\ factory.provider.prisma = prisma
         p == IF cached THEN factory.provider
              ELSE NewProvider(SelectKind(factory.config), prisma)
     IN factory' = [factory EXCEPT
          !.provider = p,
          !.created = IF cached THEN @ ELSE @ + 1,
          !.calls = @ + 1,
          !.passed = prisma,
          !.returned = p,
          !.first = IF @ = NoProvider THEN p ELSE @]
  /\ UNCHANGED <<serverWallet, wallet, copyProfile, auditLog, nextWalletId,
                 opCount, frame, phase, client>>

\* getTradingAuthorityProvider(prisma)
GetTradingAuthorityProvider(prisma) ==
  /\ factory.calls < MaxCalls
  /\ LET cached == factory.provider # NoProvider
         p == IF cached THEN factory.provider
              ELSE NewProvider(SelectKind(factory.config), prisma)
     IN factory' = [factory EXCEPT
          !.provider = p,
          !.created = IF cached THEN @ ELSE @ + 1,
          !.calls = @ + 1,
          !.passed = prisma,
          !.returned = p,
          !.first = IF @ = NoProvider THEN p ELSE @]
  /\ UNCHANGED <<serverWallet, wallet, copyProfile, auditLog, nextWalletId,
                 opCount, frame, phase, client>>

\* resetTradingAuthorityProvider()
ResetTradingAuthorityProvider ==
  /\ factory' = [factory EXCEPT !.provider = NoProvider, !.first = NoProvider]
  /\ UNCHANGED <<serverWallet, wallet, copyProfile, auditLog, nextWalletId,
                 opCount, frame, phase, client>>

\* The environment changes what getConfig() gives from now on.
SetConfig(key, env) ==
  /\ factory.config # Config(key, env)
  /\ factory' = [factory EXCEPT !.config = Config(key, env)]
  /\ UNCHANGED <<serverWallet, wallet, copyProfile, auditLog, nextWalletId,
                 opCount, frame, phase, client>>

\* ------------------------------------------------------------- provider

Running(p) == frame[p].pc \notin {"idle", "done"}

\* Mutant: every call gets the same UUID.
NewFrame_SameUuid(op, u) ==
  [IdleFrame EXCEPT !.op = op, !.userId = u, !.uuid = 1]

\* A process takes a new call: a fresh frame and fresh UUIDs.
NewFrame(op, u) ==
  [IdleFrame EXCEPT !.op = op, !.userId = u, !.uuid = opCount + 1]

\* Return or throw to the caller: the locals of the call are gone, what is
\* kept is what the call was, the record it read first, the logical remote
\* calls it made, what the last of them returned, the number of audit
\* entries it wrote and what it gave its caller.
Finish(f, result) ==
  [IdleFrame EXCEPT !.op = f.op, !.userId = f.userId, !.uuid = f.uuid,
                    !.sw = f.sw, !.remote = f.remote, !.audits = f.audits,
                    !.response = f.response, !.pc = "done", !.result = result]

\* A new call runs in the first process that runs none.
CanStart(p) ==
  /\ ~Running(p)
  /\ \A q \in Procs : q < p => Running(q)
  /\ opCount < MaxOps

\* The frame when a logical remote call issues an HTTP request: the first
\* request of the call is logged with its endpoint.
Request(f, endpoint) ==
  IF f.attempt = 0 THEN [f EXCEPT !.remote = Append(@, endpoint)] ELSE f

NotReadyError(message) == AppError("SERVER_WALLET_NOT_READY", message)

\* History of the calls made for a user: "untouched", then "firstUse" while
\* only getAddress has been called on a user that had no record and no
\* remote creation has failed, "other" from then on.
PhaseOnCall(u, op) ==
  [phase EXCEPT ![u] =
     IF op = "getAddress" /\ FindUnique(u) = NoRow /\ phase[u] = "untouched"
       THEN "firstUse"
     ELSE IF op = "getAddress" /\ phase[u] = "firstUse" THEN "firstUse"
     ELSE "other"]

\* The records at start: u1 has none, u2 has one that an earlier
\* provisioning left CREATING with the remote wallet 1.
InitialRecords ==
  {[id |-> 1, userId |-> "u2", dynamicServerWalletId |-> 1,
    address |-> ZERO_ADDRESS, status |-> "CREATING"]}

Init ==
  /\ serverWallet = InitialRecords
  /\ wallet = {}
  /\ copyProfile = [u \in Users |-> <<"ENABLED", "DISABLED", "ENABLED">>]
  /\ auditLog = <<>>
  /\ nextWalletId = 2
  /\ opCount = 0
  /\ frame = [p \in Procs |-> IdleFrame]
  /\ phase = [u \in Users |-> "untouched"]
  /\ client = ClientIdle
  /\ factory = FactoryIdle

\* Mutant: a READY record is polled like a CREATING one.
GetAddress_PollsReady(p, u) ==
  /\ CanStart(p)
  /\ LET sw == FindUnique(u)
         f == [NewFrame("getAddress", u) EXCEPT !.sw = sw]
     IN frame' = [frame EXCEPT ![p] =
          IF sw # NoRow /\ sw.status \in {"READY", "CREATING"}
          THEN [f EXCEPT !.pc = "poll"]
          ELSE [f EXCEPT !.pc = "csw_find"]]
  /\ opCount' = opCount + 1
  /\ phase' = PhaseOnCall(u, "getAddress")
  /\ UNCHANGED <<serverWallet, wallet, copyProfile, auditLog, nextWalletId, client,
                 factory>>

\* getAddress up to the result of its findUnique.
GetAddress(p, u) ==
  /\ CanStart(p)
  /\ LET sw == FindUnique(u)
         f == [NewFrame("getAddress", u) EXCEPT !.sw = sw]
     IN frame' = [frame EXCEPT ![p] =
          IF sw # NoRow /\ sw.status = "READY" THEN Finish(f, Ok(sw.address))
          ELSE IF sw # NoRow /\ sw.status = "CREATING" THEN [f EXCEPT !.pc = "poll"]
          ELSE [f EXCEPT !.pc = "csw_find"]]
  /\ opCount' = opCount + 1
  /\ phase' = PhaseOnCall(u, "getAddress")
  /\ UNCHANGED <<serverWallet, wallet, copyProfile, auditLog, nextWalletId, client,
                 factory>>

\* One attempt of fetchWalletFromDynamic(sw.dynamicServerWalletId), and the
\* test of the polled status.
PollAttempt(p) ==
  /\ frame[p].pc = "poll"
  /\ \E res \in ProviderResponses, status \in {"active", "ready", "pending"} :
       LET f == Request(frame[p], "get-wallet")
           o == LoopStep(f.attempt, res)
           fresh == [id |-> f.sw.dynamicServerWalletId,
                     address |-> AddressOf(f.sw.dynamicServerWalletId),
                     status |-> status]
       IN frame' = [frame EXCEPT ![p] =
            IF o.action = "retry" THEN [f EXCEPT !.attempt = @ + 1]
            ELSE IF o.action = "throw" THEN Finish(f, Err(o.error))
            ELSE IF fresh.status = "active" \/ fresh.status = "ready"
              THEN [f EXCEPT !.pc = "poll_update", !.attempt = 0, !.response = fresh]
            ELSE Finish([f EXCEPT !.response = fresh],
                        Err(NotReadyError("Server wallet is still being created")))]
  /\ UNCHANGED <<serverWallet, wallet, copyProfile, auditLog, nextWalletId,
                 opCount, phase, client, factory>>

\* Mutant: the polled address is returned without the update.
PollUpdate_NoWrite(p) ==
  /\ frame[p].pc = "poll_update"
  /\ frame' = [frame EXCEPT ![p] = Finish(@, Ok(@.response.address))]
  /\ UNCHANGED <<serverWallet, wallet, copyProfile, auditLog, nextWalletId,
                 opCount, phase, client, factory>>

\* The update after a successful poll, and the return.
PollUpdate(p) ==
  /\ frame[p].pc = "poll_update"
  /\ serverWallet' =
       UpdateStatusAddress(frame[p].sw.id, "READY", frame[p].response.address)
  /\ frame' = [frame EXCEPT ![p] = Finish(@, Ok(@.response.address))]
  /\ UNCHANGED <<wallet, copyProfile, auditLog, nextWalletId, opCount, phase, client,
                 factory>>

\* createServerWallet: its findUnique and the idempotent short-circuit.
CswFind(p) ==
  /\ frame[p].pc = "csw_find"
  /\ LET sw == FindUnique(frame[p].userId)
         f == [frame[p] EXCEPT !.sw = sw]
     IN frame' = [frame EXCEPT ![p] =
          IF sw # NoRow /\ sw.status = "READY" /\ ~f.isRotation
          THEN Finish(f, Ok(sw.address))
          ELSE [f EXCEPT !.pc = "csw_remote"]]
  /\ UNCHANGED <<serverWallet, wallet, copyProfile, auditLog, nextWalletId,
                 opCount, phase, client, factory>>

\* One attempt of the remote creation call POST server-wallets.
CreateAttempt(p) ==
  /\ frame[p].pc = "csw_remote"
  /\ \E res \in ProviderResponses :
       LET f == Request(frame[p], "create-wallet")
           o == LoopStep(f.attempt, res)
           created == [id |-> nextWalletId, address |-> AddressOf(nextWalletId),
                       status |-> "active"]
       IN /\ frame' = [frame EXCEPT ![p] =
               IF o.action = "retry" THEN [f EXCEPT !.attempt = @ + 1]
               ELSE IF o.action = "throw"
                 THEN [f EXCEPT !.pc = "csw_catch", !.attempt = 0, !.error = o.error]
               ELSE [f EXCEPT !.pc = "csw_write", !.attempt = 0, !.response = created]]
          /\ nextWalletId' = IF o.action = "return" THEN nextWalletId + 1
                             ELSE nextWalletId
          /\ phase' = IF o.action = "throw"
                      THEN [phase EXCEPT ![f.userId] = "other"] ELSE phase
  /\ UNCHANGED <<serverWallet, wallet, copyProfile, auditLog, opCount, client, factory>>

\* The write of the READY record: update of the row read before, or create.
CswWrite(p) ==
  /\ frame[p].pc = "csw_write"
  /\ LET f == frame[p]
         created == f.response
     IN IF f.sw # NoRow
        THEN /\ serverWallet' = UpdateWallet(f.sw.id, created.id, created.address, "READY")
             /\ frame' = [frame EXCEPT ![p].pc = "csw_upsert"]
        ELSE IF UniqueConflict(f.userId)
        THEN /\ serverWallet' = serverWallet
             /\ frame' = [frame EXCEPT ![p] =
                  [f EXCEPT !.pc = "csw_catch",
                            !.error = PlainError("Unique constraint failed")]]
        ELSE /\ serverWallet' = serverWallet \cup
                  {CreatedRow(f.userId, created.id, created.address, "READY")}
             /\ frame' = [frame EXCEPT ![p].pc = "csw_upsert"]
  /\ UNCHANGED <<wallet, copyProfile, auditLog, nextWalletId, opCount, phase, client,
                 factory>>

\* The compatibility record in the wallets table.
CswUpsert(p) ==
  /\ frame[p].pc = "csw_upsert"
  /\ wallet' = UpsertWallet(frame[p].userId, frame[p].response.address)
  /\ frame' = [frame EXCEPT ![p].pc = "csw_audit"]
  /\ UNCHANGED <<serverWallet, copyProfile, auditLog, nextWalletId, opCount,
                 phase, client, factory>>

\* SERVER_WALLET_CREATED, and the return of createServerWallet.
CswAudit(p) ==
  /\ frame[p].pc = "csw_audit"
  /\ LET f == [frame[p] EXCEPT !.audits = @ + 1] IN
     /\ auditLog' = Audit(f.userId, "SERVER_WALLET_CREATED", 0,
                          <<f.response.id, f.response.address, f.isRotation>>)
     /\ frame' = [frame EXCEPT ![p] =
          IF f.op = "rotate" THEN [f EXCEPT !.pc = "rot_audit"]
          ELSE Finish(f, Ok(f.response.address))]
  /\ UNCHANGED <<serverWallet, wallet, copyProfile, nextWalletId, opCount,
                 phase, client, factory>>

\* catch of createServerWallet: the FAILED record.
CswCatchWrite(p) ==
  /\ frame[p].pc = "csw_catch"
  /\ LET f == frame[p] IN
     IF f.sw = NoRow
     THEN IF UniqueConflict(f.userId)
          THEN /\ serverWallet' = serverWallet
               /\ frame' = [frame EXCEPT ![p] =
                    Finish(f, Err(PlainError("Unique constraint failed")))]
          ELSE /\ serverWallet' = serverWallet \cup
                    {CreatedRow(f.userId, PendingId(f.uuid), ZERO_ADDRESS, "FAILED")}
               /\ frame' = [frame EXCEPT ![p].pc = "csw_catch_audit"]
     ELSE /\ serverWallet' = UpdateStatus(f.sw.id, "FAILED")
          /\ frame' = [frame EXCEPT ![p].pc = "csw_catch_audit"]
  /\ UNCHANGED <<wallet, copyProfile, auditLog, nextWalletId, opCount, phase, client,
                 factory>>

\* catch of createServerWallet: SERVER_WALLET_FAILED, and the throw.
CswCatchAudit(p) ==
  /\ frame[p].pc = "csw_catch_audit"
  /\ LET f == [frame[p] EXCEPT !.audits = @ + 1] IN
     /\ auditLog' = Audit(f.userId, "SERVER_WALLET_FAILED", 0, <<f.error.message>>)
     /\ frame' = [frame EXCEPT ![p] =
          Finish(f, Err(AppError("SERVER_WALLET_CREATION_FAILED", f.error.message)))]
  /\ UNCHANGED <<serverWallet, wallet, copyProfile, nextWalletId, opCount,
                 phase, client, factory>>

\* Mutant: requireReadyWallet tests only that a record exists.
RequireReadyWallet_AnyStatus(sw) == sw # NoRow

\* requireReadyWallet
RequireReadyWallet(sw) == sw # NoRow /\ sw.status = "READY"

\* A signing operation up to the result of requireReadyWallet: the
\* correlation id is minted first, the record is read and tested.
Sign(p, u, op) ==
  /\ CanStart(p)
  /\ LET sw == FindUnique(u)
         f == [NewFrame(op, u) EXCEPT !.sw = sw]
     IN frame' = [frame EXCEPT ![p] =
          IF RequireReadyWallet(sw) THEN [f EXCEPT !.pc = "audit_req"]
          ELSE Finish(f, Err(NotReadyError("Server wallet is not ready for signing")))]
  /\ opCount' = opCount + 1
  /\ phase' = PhaseOnCall(u, op)
  /\ UNCHANGED <<serverWallet, wallet, copyProfile, auditLog, nextWalletId, client,
                 factory>>

\* auditSigningRequest
AuditSigningRequest(p) ==
  /\ frame[p].pc = "audit_req"
  /\ auditLog' = Audit(frame[p].userId, "SIGNING_REQUESTED", frame[p].uuid,
                       <<frame[p].op>>)
  /\ frame' = [frame EXCEPT ![p].pc = "sign_remote", ![p].audits = @ + 1]
  /\ UNCHANGED <<serverWallet, wallet, copyProfile, nextWalletId, opCount,
                 phase, client, factory>>

\* One attempt of the remote signing call (sign, sign-typed-data or
\* sign-transaction of the wallet read by requireReadyWallet).
SignAttempt(p) ==
  /\ frame[p].pc = "sign_remote"
  /\ \E res \in ProviderResponses, txStatus \in {"confirmed", "pending"} :
       LET f == Request(frame[p], "sign")
           o == LoopStep(f.attempt, res)
           signed == [id |-> f.sw.dynamicServerWalletId,
                      address |-> SignatureOf(f.sw.dynamicServerWalletId),
                      status |-> IF f.op = "executeTransaction" THEN txStatus ELSE ""]
       IN frame' = [frame EXCEPT ![p] =
            IF o.action = "retry" THEN [f EXCEPT !.attempt = @ + 1]
            ELSE IF o.action = "throw"
              THEN [f EXCEPT !.pc = "audit_failed", !.attempt = 0, !.error = o.error]
            ELSE [f EXCEPT !.pc = "audit_complete", !.attempt = 0, !.response = signed]]
  /\ UNCHANGED <<serverWallet, wallet, copyProfile, auditLog, nextWalletId,
                 opCount, phase, client, factory>>

\* auditSigningComplete, and the return of the signature or of the
\* transaction result.
AuditSigningComplete(p) ==
  /\ frame[p].pc = "audit_complete"
  /\ LET f == [frame[p] EXCEPT !.audits = @ + 1] IN
     /\ auditLog' = Audit(f.userId, "SIGNING_COMPLETED", f.uuid, <<>>)
     /\ frame' = [frame EXCEPT ![p] =
          IF f.op = "executeTransaction"
          THEN Finish(f, OkTx(f.response.address,
                 IF f.response.status = "confirmed" THEN "confirmed" ELSE "submitted"))
          ELSE Finish(f, Ok(f.response.address))]
  /\ UNCHANGED <<serverWallet, wallet, copyProfile, nextWalletId, opCount,
                 phase, client, factory>>

\* Mutant: every signing failure is wrapped as SIGNING_UNAVAILABLE.
WrapSigningError_AlwaysUnavailable(error) ==
  AppError("SIGNING_UNAVAILABLE", error.message)

\* wrapSigningError
WrapSigningError(error) ==
  IF error.isAppError THEN error
  ELSE AppError("SIGNING_UNAVAILABLE", error.message)

\* Mutant: the catch of a signing operation marks the wallet FAILED.
AuditSigningFailed_MarksFailed(p) ==
  /\ frame[p].pc = "audit_failed"
  /\ LET f == [frame[p] EXCEPT !.audits = @ + 1] IN
     /\ auditLog' = Audit(f.userId, "SIGNING_FAILED", f.uuid, <<f.error.message>>)
     /\ serverWallet' = UpdateStatus(f.sw.id, "FAILED")
     /\ frame' = [frame EXCEPT ![p] = Finish(f, Err(WrapSigningError(f.error)))]
  /\ UNCHANGED <<wallet, copyProfile, nextWalletId, opCount, phase, client, factory>>

\* Mutant: the catch of a signing operation throws without the audit entry.
AuditSigningFailed_NoEntry(p) ==
  /\ frame[p].pc = "audit_failed"
  /\ frame' = [frame EXCEPT ![p] = Finish(@, Err(WrapSigningError(@.error)))]
  /\ UNCHANGED <<serverWallet, wallet, copyProfile, auditLog, nextWalletId,
                 opCount, phase, client, factory>>

\* auditSigningFailed, and the throw of the wrapped error.
AuditSigningFailed(p) ==
  /\ frame[p].pc = "audit_failed"
  /\ LET f == [frame[p] EXCEPT !.audits = @ + 1] IN
     /\ auditLog' = Audit(f.userId, "SIGNING_FAILED", f.uuid, <<f.error.message>>)
     /\ frame' = [frame EXCEPT ![p] = Finish(f, Err(WrapSigningError(f.error)))]
  /\ UNCHANGED <<serverWallet, wallet, copyProfile, nextWalletId, opCount,
                 phase, client, factory>>

\* Mutant: rotate does not test the result of its findUnique.
Rotate_NoTest(p, u) ==
  /\ CanStart(p)
  /\ LET oldWallet == FindUnique(u)
         f == [NewFrame("rotate", u) EXCEPT !.oldWallet = oldWallet]
     IN frame' = [frame EXCEPT ![p] = [f EXCEPT !.pc = "csw_find", !.isRotation = TRUE]]
  /\ opCount' = opCount + 1
  /\ phase' = PhaseOnCall(u, "rotate")
  /\ UNCHANGED <<serverWallet, wallet, copyProfile, auditLog, nextWalletId, client,
                 factory>>

\* rotate up to the result of its findUnique.
Rotate(p, u) ==
  /\ CanStart(p)
  /\ LET oldWallet == FindUnique(u)
         f == [NewFrame("rotate", u) EXCEPT !.oldWallet = oldWallet]
     IN frame' = [frame EXCEPT ![p] =
          IF oldWallet = NoRow
          THEN Finish(f, Err(AppError("NOT_FOUND", "No server wallet to rotate")))
          ELSE [f EXCEPT !.pc = "csw_find", !.isRotation = TRUE]]
  /\ opCount' = opCount + 1
  /\ phase' = PhaseOnCall(u, "rotate")
  /\ UNCHANGED <<serverWallet, wallet, copyProfile, auditLog, nextWalletId, client,
                 factory>>

\* OWNERSHIP_TRANSFERRED after createServerWallet returned the new address.
RotateAudit(p) ==
  /\ frame[p].pc = "rot_audit"
  /\ LET f == [frame[p] EXCEPT !.audits = @ + 1] IN
     /\ auditLog' = Audit(f.userId, "OWNERSHIP_TRANSFERRED", 0,
                          <<f.oldWallet.address, f.response.address>>)
     /\ frame' = [frame EXCEPT ![p] = Finish(f, Ok(0))]
  /\ UNCHANGED <<serverWallet, wallet, copyProfile, nextWalletId, opCount,
                 phase, client, factory>>

\* revoke up to the result of its findUnique.
Revoke(p, u) ==
  /\ CanStart(p)
  /\ LET sw == FindUnique(u)
         f == [NewFrame("revoke", u) EXCEPT !.sw = sw]
     IN frame' = [frame EXCEPT ![p] =
          IF sw = NoRow THEN Finish(f, Ok(0)) ELSE [f EXCEPT !.pc = "rev_update"]]
  /\ opCount' = opCount + 1
  /\ phase' = PhaseOnCall(u, "revoke")
  /\ UNCHANGED <<serverWallet, wallet, copyProfile, auditLog, nextWalletId, client,
                 factory>>

\* revoke: the record is marked FAILED.
RevokeUpdate(p) ==
  /\ frame[p].pc = "rev_update"
  /\ serverWallet' = UpdateStatus(frame[p].sw.id, "FAILED")
  /\ frame' = [frame EXCEPT ![p].pc = "rev_pause"]
  /\ UNCHANGED <<wallet, copyProfile, auditLog, nextWalletId, opCount, phase, client,
                 factory>>

\* revoke: copy trading is paused.
RevokePause(p) ==
  /\ frame[p].pc = "rev_pause"
  /\ copyProfile' = PauseProfiles(frame[p].userId)
  /\ frame' = [frame EXCEPT ![p].pc = "rev_audit"]
  /\ UNCHANGED <<serverWallet, wallet, auditLog, nextWalletId, opCount, phase, client,
                 factory>>

\* revoke: SERVER_WALLET_FAILED, and the return.
RevokeAudit(p) ==
  /\ frame[p].pc = "rev_audit"
  /\ LET f == [frame[p] EXCEPT !.audits = @ + 1] IN
     /\ auditLog' = Audit(f.userId, "SERVER_WALLET_FAILED", 0,
                          <<"Wallet revoked", f.sw.dynamicServerWalletId>>)
     /\ frame' = [frame EXCEPT ![p] = Finish(f, Ok(0))]
  /\ UNCHANGED <<serverWallet, wallet, copyProfile, nextWalletId, opCount,
                 phase, client, factory>>

\* One step of a call in flight.
Step(p) ==
  \/ PollAttempt(p) \/ PollUpdate(p)
  \/ CswFind(p) \/ CreateAttempt(p) \/ CswWrite(p) \/ CswUpsert(p) \/ CswAudit(p)
  \/ CswCatchWrite(p) \/ CswCatchAudit(p)
  \/ AuditSigningRequest(p) \/ SignAttempt(p)
  \/ AuditSigningComplete(p) \/ AuditSigningFailed(p)
  \/ RotateAudit(p)
  \/ RevokeUpdate(p) \/ RevokePause(p) \/ RevokeAudit(p)

Next ==
  \/ \E p \in Procs, u \in Users : GetAddress(p, u)
  \/ \E p \in Procs, u \in Users, op \in SigningOps : Sign(p, u, op)
  \/ \E p \in Procs, u \in Users : Rotate(p, u)
  \/ \E p \in Procs, u \in Users : Revoke(p, u)
  \/ \E p \in Procs : Step(p)

Spec == Init /\ [][Next]_vars

\* Every call in flight keeps running: the event loop resumes each awaiting
\* call once its remote attempt or persistence write has completed.
LiveSpec == Spec /\ \A p \in Procs : WF_vars(Step(p))

\* The remote call client on its own, against every sequence of responses.
ClientInit ==
  /\ serverWallet = InitialRecords
  /\ wallet = {}
  /\ copyProfile = [u \in Users |-> <<"ENABLED", "DISABLED", "ENABLED">>]
  /\ auditLog = <<>>
  /\ nextWalletId = 2
  /\ opCount = 0
  /\ frame = [p \in Procs |-> IdleFrame]
  /\ phase = [u \in Users |-> "untouched"]
  /\ client = ClientIdle
  /\ factory = FactoryIdle

ClientNext == ClientCall \/ ClientAttempt

ClientSpec == ClientInit /\ [][ClientNext]_vars

\* The provider factory on its own, against every sequence of calls, resets
\* and configuration changes.
FactoryInit ==
  /\ serverWallet = InitialRecords
  /\ wallet = {}
  /\ copyProfile = [u \in Users |-> <<"ENABLED", "DISABLED", "ENABLED">>]
  /\ auditLog = <<>>
  /\ nextWalletId = 2
  /\ opCount = 0
  /\ frame = [p \in Procs |-> IdleFrame]
  /\ phase = [u \in Users |-> "untouched"]
  /\ client = ClientIdle
  /\ factory = FactoryIdle

FactoryNext ==
  \/ \E prisma \in PrismaClients : GetTradingAuthorityProvider(prisma)
  \/ ResetTradingAuthorityProvider
  \/ \E key \in Keys, env \in Envs : SetConfig(key, env)

FactorySpec == FactoryInit /\ [][FactoryNext]_vars

\* ================================================================ claims

RecordsOf(u) == {r \in serverWallet : r.userId = u}

EntriesOf(u, action) ==
  {i \in DOMAIN auditLog : auditLog[i].userId = u /\ auditLog[i].action = action}

AllFinishedFor(u) == \A p \in Procs : frame[p].userId = u => ~Running(p)

\* C1: for a user that had no record and for which only getAddress has been
\* called, with every remote creation succeeding, once all the calls have
\* finished there is exactly one wallet record, it is READY, and the audit
\* log holds exactly one SERVER_WALLET_CREATED entry for the user.
C1_FirstUseCreatesOnce ==
  \A u \in Users :
    (phase[u] = "firstUse" /\ AllFinishedFor(u)) =>
      /\ Cardinality(RecordsOf(u)) = 1
      /\ \A r \in RecordsOf(u) : r.status = "READY"
      /\ Cardinality(EntriesOf(u, "SERVER_WALLET_CREATED")) = 1

\* Two getAddress calls of a first use both went to the remote creation and
\* both have finished.
C1_Witness ==
  \E u \in Users :
    /\ phase[u] = "firstUse"
    /\ \A p \in Procs :
         /\ frame[p].pc = "done"
         /\ frame[p].op = "getAddress"
         /\ frame[p].userId = u
         /\ frame[p].remote = <<"create-wallet">>

\* C2: in a first use (only getAddress calls, every remote creation
\* succeeding) no getAddress call returns an error: the caller whose insert
\* hits the unique-user conflict returns the address of the winning record.
C2_LoserReturnsWinner ==
  \A p \in Procs :
    (/\ frame[p].pc = "done"
     /\ frame[p].op = "getAddress"
     /\ phase[frame[p].userId] = "firstUse") =>
      /\ frame[p].result.kind = "ok"
      /\ frame[p].result.value = FindUnique(frame[p].userId).address

IsTerminal(e) == e.action \in {"SIGNING_COMPLETED", "SIGNING_FAILED"}

\* C3: a SIGNING_COMPLETED or SIGNING_FAILED entry is preceded by a
\* SIGNING_REQUESTED entry with the same correlation id, and a correlation
\* id has at most one SIGNING_REQUESTED entry and at most one terminal entry.
C3_RequestBeforeOutcome ==
  /\ \A i \in DOMAIN auditLog :
       IsTerminal(auditLog[i]) =>
         \E j \in 1..(i - 1) :
           /\ auditLog[j].action = "SIGNING_REQUESTED"
           /\ auditLog[j].correlationId = auditLog[i].correlationId
  /\ \A i, j \in DOMAIN auditLog :
       (/\ i # j
        /\ auditLog[i].correlationId = auditLog[j].correlationId
        /\ auditLog[i].correlationId # 0) =>
         /\ ~(auditLog[i].action = "SIGNING_REQUESTED"
              /\ auditLog[j].action = "SIGNING_REQUESTED")
         /\ ~(IsTerminal(auditLog[i]) /\ IsTerminal(auditLog[j]))

\* Two signing operations have interleaved: both requests are in the log
\* before the first outcome, one completed and the other failed.
C3_Witness ==
  /\ Len(auditLog) >= 4
  /\ \E i, j, k, l \in DOMAIN auditLog :
       /\ i < j /\ j < k /\ k < l
       /\ auditLog[i].action = "SIGNING_REQUESTED"
       /\ auditLog[j].action = "SIGNING_REQUESTED"
       /\ auditLog[k].action = "SIGNING_FAILED"
       /\ auditLog[l].action = "SIGNING_COMPLETED"
       /\ auditLog[k].correlationId = auditLog[i].correlationId
       /\ auditLog[l].correlationId = auditLog[j].correlationId

Requested(c) ==
  \E i \in DOMAIN auditLog :
    auditLog[i].action = "SIGNING_REQUESTED" /\ auditLog[i].correlationId = c

Outcome(c, action) ==
  \E i \in DOMAIN auditLog :
    auditLog[i].action = action /\ auditLog[i].correlationId = c

Closed(c) == Outcome(c, "SIGNING_COMPLETED") \/ Outcome(c, "SIGNING_FAILED")

\* The terminal entry of a finished signing call tells what its remote call
\* did: COMPLETED when it returned the signature, FAILED when it threw.
OutcomeMatches(f) ==
  /\ f.result.kind = "ok" =>
       /\ f.result.value = SignatureOf(f.sw.dynamicServerWalletId)
       /\ Outcome(f.uuid, "SIGNING_COMPLETED")
  /\ (f.result.kind = "error" /\ f.remote # <<>>) =>
       Outcome(f.uuid, "SIGNING_FAILED")

\* C4: every SIGNING_REQUESTED entry is eventually followed by a terminal
\* entry with the same correlation id, and that entry is SIGNING_COMPLETED
\* when the remote call of the operation succeeded, SIGNING_FAILED when it
\* failed after its retries.
C4_RequestEventuallyClosed ==
  /\ \A c \in 1..MaxOps : Requested(c) ~> Closed(c)
  /\ [](\A p \in Procs :
          (frame[p].op \in SigningOps /\ frame[p].pc = "done") =>
            OutcomeMatches(frame[p]))

\* A signing request is open while its remote call is at its last attempt.
C4_Witness ==
  \E p \in Procs :
    /\ frame[p].pc = "sign_remote"
    /\ frame[p].attempt = MAX_RETRIES
    /\ Requested(frame[p].uuid)
    /\ ~Outcome(frame[p].uuid, "SIGNING_COMPLETED")
    /\ ~Outcome(frame[p].uuid, "SIGNING_FAILED")

\* C5: a signing operation that read no record, or a record that is
\* CREATING or FAILED, has failed with SERVER_WALLET_NOT_READY and has
\* issued no request to the remote service.
C5_NotReadyNoRequest ==
  \A p \in Procs :
    (frame[p].op \in SigningOps /\ frame[p].sw.status # "READY") =>
      /\ frame[p].pc = "done"
      /\ frame[p].result.kind = "error"
      /\ frame[p].result.error.isAppError
      /\ frame[p].result.error.code = "SERVER_WALLET_NOT_READY"
      /\ frame[p].remote = <<>>

\* Signing was refused on a FAILED record and on an absent or CREATING one.
C5_Witness ==
  /\ \E p \in Procs :
       /\ frame[p].op \in SigningOps
       /\ frame[p].pc = "done"
       /\ frame[p].sw.status = "FAILED"
  /\ \E p \in Procs :
       /\ frame[p].op \in SigningOps
       /\ frame[p].pc = "done"
       /\ frame[p].sw.status \in {"NONE", "CREATING"}

\* C6: a call that returned an error to its caller has written at least one
\* audit entry before.
C6_FailureAudited ==
  \A p \in Procs :
    (frame[p].pc = "done" /\ frame[p].result.kind = "error") =>
      frame[p].audits >= 1

\* An address the remote service returned, not the zero placeholder.
ValidAddress(a) == a # ZERO_ADDRESS

\* C7 as stated: the address of a wallet record is a valid signing address
\* if and only if the status of the record is READY.
C7_AddressValidIffReady ==
  \A r \in serverWallet : ValidAddress(r.address) <=> r.status = "READY"

\* C7, amended: a READY record carries a valid signing address, never the
\* zero placeholder (the converse fails: revoke and a failed re-creation or
\* rotation leave the address of the FAILED record in place).
C7_ReadyHasValidAddress ==
  \A r \in serverWallet : r.status = "READY" => ValidAddress(r.address)

\* One record is READY with its address, another is FAILED and still
\* carries the address it had, its failure being in the audit log.
C7_Witness ==
  /\ \E r \in serverWallet : r.status = "READY" /\ ValidAddress(r.address)
  /\ \E r \in serverWallet :
       /\ r.status = "FAILED"
       /\ ValidAddress(r.address)
       /\ EntriesOf(r.userId, "SERVER_WALLET_FAILED") # {}

StatusOf(u) == FindUnique(u).status

\* C8: a record that is FAILED becomes READY only in the step of a call for
\* that user that writes the result of a successful remote creation
\* (createServerWallet) or of a successful poll (getAddress).
C8_FailedToReadyOnlyOnSuccess ==
  [][\A u \in Users :
       (StatusOf(u) = "FAILED" /\ StatusOf(u)' = "READY") =>
         \E p \in Procs :
           /\ frame[p].userId = u
           /\ frame[p].op \in {"getAddress", "rotate"}
           /\ frame[p].pc \in {"csw_write", "poll_update"}
           /\ frame[p].response.status \in {"active", "ready"}
           /\ frame'[p].pc # frame[p].pc
           /\ FindUnique(u)'.address = frame[p].response.address]_vars

\* A record that failed was made READY by a later creation.
C8_Witness ==
  \E u \in Users :
    /\ StatusOf(u) = "READY"
    /\ \E i, j \in DOMAIN auditLog :
         /\ i < j
         /\ auditLog[i].userId = u /\ auditLog[i].action = "SERVER_WALLET_FAILED"
         /\ auditLog[j].userId = u /\ auditLog[j].action = "SERVER_WALLET_CREATED"

\* A response that ends the call with a return.
Success(res) == IsOk(res) /\ res.jsonOk

\* C9: a call of callDynamicWithRetry issues at most 4 HTTP requests, is
\* over once the 4th has been answered, and when it returns, it returns the
\* first successful response.
C9_AtMostFourRequests ==
  /\ client.requests <= 1 + 3
  /\ client.requests = Len(client.responses)
  /\ client.requests = 1 + 3 => client.pc \in {"returned", "thrown"}
  /\ client.pc = "returned" =>
       /\ Success(client.responses[Len(client.responses)])
       /\ \A i \in 1..(Len(client.responses) - 1) : ~Success(client.responses[i])
  /\ client.pc = "thrown" => client.error # NoError

\* The call ended after 4 requests answered by a 429, a non-success status
\* and a network error among them.
C9_Witness ==
  /\ client.pc = "thrown"
  /\ client.requests = 4
  /\ \E i, j, k \in 1..4 :
       /\ client.responses[i].status = 429
       /\ client.responses[j].status = 500
       /\ client.responses[k].status = 0

\* C10: when the 4th attempt is answered 429, the call throws RATE_LIMITED
\* (an AppError, not a plain error) and has slept only after the first three
\* attempts.
C10_RateLimitedAfterLast429 ==
  (Len(client.responses) = 4 /\ client.responses[4].status = 429) =>
    /\ client.pc = "thrown"
    /\ client.error = AppError("RATE_LIMITED", "Dynamic API rate limited")
    /\ Len(client.sleeps) = 3
    /\ client.requests = 4

\* All 4 attempts were answered 429.
C10_Witness ==
  /\ Len(client.responses) = 4
  /\ \A i \in 1..4 : client.responses[i].status = 429
  /\ client.pc = "thrown"

\* A response after which the call does not return and that is not a 429:
\* a rejected fetch (network error or timeout), a non-success status, or a
\* body that does not parse.
FailedNot429(res) == res.status # 429 /\ ~Success(res)

\* C11: after a 429 on one of the first three attempts the call sleeps once,
\* for 1000 ms times the Retry-After value, or 2000 ms when the header is
\* absent, whatever the index of the attempt, and then goes on to the next
\* attempt.
C11_RetryAfterSleep ==
  /\ Len(client.sleeps) = client.attempt
  /\ \A i \in 1..Len(client.responses) :
       (client.responses[i].status = 429 /\ i <= 3) =>
         /\ Len(client.sleeps) >= i
         /\ client.sleeps[i] =
              IF client.responses[i].retryAfter = <<>> THEN 2 * 1000
              ELSE client.responses[i].retryAfter[1] * 1000
         /\ (Len(client.responses) > i \/ client.pc = "running")

\* A 429 with Retry-After: 3 on the first attempt and a 429 without the
\* header on the third, each followed by a further attempt.
C11_Witness ==
  /\ Len(client.responses) = 4
  /\ client.responses[1] = Response(429, <<3>>, TRUE)
  /\ client.responses[3] = Response(429, <<>>, TRUE)
  /\ client.sleeps[1] = 3000
  /\ client.sleeps[3] = 2000

\* C12: after a failure other than a 429 on one of the first three attempts
\* the call sleeps 500 * 2^attempt ms, attempt being the zero-based index of
\* the failed attempt among all the attempts of the call (500, 1000, 2000),
\* and then goes on to the next attempt.
C12_ExponentialBackoff ==
  \A i \in 1..Len(client.responses) :
    (FailedNot429(client.responses[i]) /\ i <= 3) =>
      /\ Len(client.sleeps) >= i
      /\ client.sleeps[i] = 500 * (2 ^ (i - 1))
      /\ client.sleeps[i] \in {500, 1000, 2000}
      /\ (Len(client.responses) > i \/ client.pc = "running")

\* A 429 on the first attempt, then a non-success status and a network
\* error: the two backoffs are 1000 and 2000 ms.
C12_Witness ==
  /\ Len(client.responses) = 4
  /\ client.responses[1].status = 429
  /\ client.responses[2].status = 500
  /\ client.responses[3].status = 0
  /\ client.sleeps[2] = 1000
  /\ client.sleeps[3] = 2000

\* The error the 4th attempt ends with.
ErrorOfAttempt(res) ==
  IF res.status = 0 THEN PlainError("NetworkError")
  ELSE IF ~IsOk(res) THEN PlainError("HttpError")
  ELSE PlainError("SyntaxError")

\* C13: when the 4th attempt fails otherwise than with a 429, the call
\* throws the error of that attempt as it is: a plain error, not an
\* AppError of any code, whatever the earlier attempts were answered.
C13_LastErrorUnchanged ==
  (Len(client.responses) = 4 /\ FailedNot429(client.responses[4])) =>
    /\ client.pc = "thrown"
    /\ ~client.error.isAppError
    /\ client.error = ErrorOfAttempt(client.responses[4])
    /\ Len(client.sleeps) = 3

\* Three 429 answers, then a network error on the 4th attempt.
C13_Witness ==
  /\ Len(client.responses) = 4
  /\ \A i \in 1..3 : client.responses[i].status = 429
  /\ client.responses[4].status = 0
  /\ client.pc = "thrown"

\* The step by which the call of process p returns or throws.
Returns(p) == Running(p) /\ frame'[p].pc = "done"

\* The error in hand is the one the remote call ended with, not one of a
\* persistence write.
RemoteFailure(error) ==
  error # NoError /\ error.message # "Unique constraint failed"

\* getAddress of process p is in the catch of createServerWallet after its
\* remote creation call failed, for a user it found without a record.
CreationFailedNoRecord(p) ==
  /\ frame[p].op = "getAddress"
  /\ frame[p].pc \in {"csw_catch", "csw_catch_audit"}
  /\ frame[p].sw = NoRow
  /\ frame[p].remote = <<"create-wallet">>
  /\ RemoteFailure(frame[p].error)

\* C14: when getAddress for a user without a record ends after its remote
\* creation call failed on all 4 attempts, it throws
\* SERVER_WALLET_CREATION_FAILED, the user has exactly one record, FAILED
\* with the zero placeholder address, and the call has written one audit
\* entry, SERVER_WALLET_FAILED, and no SERVER_WALLET_CREATED.
C14_CreationFailureRecorded ==
  [][\A p \in Procs :
       (CreationFailedNoRecord(p) /\ Returns(p)) =>
         /\ frame'[p].result.kind = "error"
         /\ frame'[p].result.error.code = "SERVER_WALLET_CREATION_FAILED"
         /\ \E r \in serverWallet' :
              /\ r.userId = frame[p].userId
              /\ r.status = "FAILED"
              /\ r.address = ZERO_ADDRESS
              /\ \A q \in serverWallet' : q.userId = r.userId => q = r
         /\ frame'[p].audits = 1
         /\ Len(auditLog') = Len(auditLog) + 1
         /\ auditLog'[Len(auditLog')].userId = frame[p].userId
         /\ auditLog'[Len(auditLog')].action = "SERVER_WALLET_FAILED"]_vars

\* The error code a failed signing call must surface for the error its
\* remote call ended with.
SigningErrorCode(error) ==
  IF error.isAppError /\ error.code = "RATE_LIMITED" THEN "RATE_LIMITED"
  ELSE "SIGNING_UNAVAILABLE"

\* C15: a signing operation that passed requireReadyWallet and whose remote
\* call failed goes to its catch with that error, and leaves it only by
\* writing SIGNING_FAILED under its correlation id and throwing a typed
\* error: RATE_LIMITED when the remote call threw RATE_LIMITED,
\* SIGNING_UNAVAILABLE for every other failure; it returns no signature.
C15_SigningFailureTyped ==
  [][\A p \in Procs :
       /\ (frame[p].pc = "sign_remote" /\ frame'[p].pc \notin {"sign_remote", "audit_complete"}) =>
            /\ frame[p].sw.status = "READY"
            /\ frame'[p].pc = "audit_failed"
            /\ frame'[p].error # NoError
            /\ auditLog' = auditLog
       /\ (frame[p].pc = "audit_failed" /\ frame'[p] # frame[p]) =>
            /\ frame'[p].pc = "done"
            /\ auditLog' = Append(auditLog,
                 AuditEntry(frame[p].userId, "SIGNING_FAILED", frame[p].uuid,
                            <<frame[p].error.message>>))
            /\ frame'[p].result.kind = "error"
            /\ frame'[p].result.error.isAppError
            /\ frame'[p].result.error.code = SigningErrorCode(frame[p].error)
            /\ frame'[p].result.error.message = frame[p].error.message
            /\ frame'[p].result.value = 0]_vars

\* One signing call has thrown RATE_LIMITED and another SIGNING_UNAVAILABLE,
\* each with its SIGNING_FAILED entry in the log.
C15_Witness ==
  \E p, q \in Procs :
    /\ frame[p].pc = "done" /\ frame[p].op \in SigningOps
    /\ frame[p].result.error.code = "RATE_LIMITED"
    /\ frame[q].pc = "done" /\ frame[q].op \in SigningOps
    /\ frame[q].result.error.code = "SIGNING_UNAVAILABLE"
    /\ \E i, j \in DOMAIN auditLog :
         /\ auditLog[i].action = "SIGNING_FAILED"
         /\ auditLog[i].correlationId = frame[p].uuid
         /\ auditLog[j].action = "SIGNING_FAILED"
         /\ auditLog[j].correlationId = frame[q].uuid

\* Process p takes a step of a revoke call, its first one included.
RevokeStep(p) == frame'[p] # frame[p] /\ frame'[p].op = "revoke"

\* C16: a revoke that finds no record returns at once without error and
\* changes no table; a revoke that found a READY record sets the status of
\* that record to FAILED and nothing else in it, then sets every ENABLED copy
\* profile of the user to PAUSED and leaves the user's other profiles as
\* they are, and returns without error; no step of a revoke changes the
\* records or the copy profiles of another user.
C16_RevokeEffect ==
  [][\A p \in Procs : RevokeStep(p) =>
       LET f == frame'[p]
           u == f.userId
       IN /\ \A v \in Users \ {u} :
               /\ {r \in serverWallet' : r.userId = v} = RecordsOf(v)
               /\ copyProfile'[v] = copyProfile[v]
               /\ {w \in wallet' : w.userId = v} = {w \in wallet : w.userId = v}
          /\ f.pc = "done" => f.result = Ok(0)
          /\ f.sw = NoRow =>
               /\ f.pc = "done"
               /\ RecordsOf(u) = {}
               /\ UNCHANGED <<serverWallet, wallet, copyProfile, auditLog>>
          /\ (frame[p].pc = "rev_update" /\ f.sw.status = "READY") =>
               /\ f.pc = "rev_pause"
               /\ \E r \in RecordsOf(u) :
                    /\ r.id = f.sw.id
                    /\ serverWallet' =
                         (serverWallet \ {r}) \cup {[r EXCEPT !.status = "FAILED"]}
               /\ UNCHANGED <<wallet, copyProfile, auditLog>>
          /\ (frame[p].pc = "rev_pause" /\ f.sw.status = "READY") =>
               /\ f.pc = "rev_audit"
               /\ DOMAIN copyProfile'[u] = DOMAIN copyProfile[u]
               /\ \A k \in DOMAIN copyProfile[u] :
                    copyProfile'[u][k] =
                      IF copyProfile[u][k] = "ENABLED" THEN "PAUSED"
                      ELSE copyProfile[u][k]
               /\ UNCHANGED <<serverWallet, wallet, auditLog>>]_vars

\* A revoke that found the record of u1 READY has returned: the record is
\* FAILED, both ENABLED profiles of u1 are PAUSED, those of u2 are not.
C16_Witness ==
  \E p \in Procs :
    /\ frame[p].pc = "done" /\ frame[p].op = "revoke" /\ frame[p].userId = "u1"
    /\ frame[p].sw.status = "READY"
    /\ StatusOf("u1") = "FAILED"
    /\ copyProfile["u1"] = <<"PAUSED", "DISABLED", "PAUSED">>
    /\ copyProfile["u2"] = <<"ENABLED", "DISABLED", "ENABLED">>

\* C17: a revoke that finds the record already FAILED is a no-op: none of
\* its steps changes the wallet records, the compatibility records, the copy
\* profiles or the audit log, so that the state after revoke; revoke is the
\* state after one revoke.
C17_RevokeIdempotent ==
  [][\A p \in Procs :
       (RevokeStep(p) /\ frame'[p].sw.status = "FAILED") =>
         UNCHANGED <<serverWallet, wallet, copyProfile, auditLog>>]_vars

\* Process p takes a step of a rotate call, its first one included.
RotateStep(p) == frame'[p] # frame[p] /\ frame'[p].op = "rotate"

C19_CreatingPollsOnce ==
  [][\A p \in Procs : frame'[p] # frame[p] =>
       LET f == frame[p]
           g == frame'[p]
           u == g.userId
       IN /\ (~Running(p) /\ g.op = "getAddress" /\ FindUnique(u).status = "CREATING") =>
               /\ g.pc = "poll"
               /\ g.sw = FindUnique(u)
               /\ g.remote = <<>>
               /\ UNCHANGED <<serverWallet, wallet, copyProfile, auditLog>>
          /\ f.pc = "poll" =>
               /\ g.remote = <<"get-wallet">>
               /\ g.sw = f.sw
               /\ UNCHANGED <<serverWallet, wallet, copyProfile, auditLog>>
               /\ g.pc \in {"poll", "poll_update", "done"}
               /\ g.pc = "poll_update" =>
                    /\ g.response.status \in {"active", "ready"}
                    /\ g.response.address = AddressOf(f.sw.dynamicServerWalletId)
               /\ g.pc = "done" =>
                    /\ g.result.kind = "error"
                    /\ g.response # NoResponse =>
                         /\ g.response.status \notin {"active", "ready"}
                         /\ g.result.error.code = "SERVER_WALLET_NOT_READY"
                    /\ g.response = NoResponse =>
                         g.result.error.code \in {"Error", "RATE_LIMITED"}
          /\ f.pc = "poll_update" =>
               /\ g.pc = "done"
               /\ g.result = Ok(f.response.address)
               /\ g.remote = <<"get-wallet">>
               /\ \E r \in serverWallet :
                    /\ r.id = f.sw.id
                    /\ serverWallet' = (serverWallet \ {r}) \cup
                         {[r EXCEPT !.status = "READY", !.address = f.response.address]}
               /\ UNCHANGED <<wallet, copyProfile, auditLog>>]_vars

\* Two getAddress calls read the CREATING record of u2: the poll of one
\* reported a status other than active or ready and it threw
\* SERVER_WALLET_NOT_READY, the poll of the other reported the wallet ready
\* and it returned the polled address, now in the READY record.
C19_Witness ==
  \E p, q \in Procs, r \in serverWallet :
    /\ frame[p].pc = "done" /\ frame[p].op = "getAddress"
    /\ frame[p].sw.status = "CREATING"
    /\ frame[p].remote = <<"get-wallet">>
    /\ frame[p].result.error.code = "SERVER_WALLET_NOT_READY"
    /\ frame[q].pc = "done" /\ frame[q].op = "getAddress"
    /\ frame[q].sw.status = "CREATING"
    /\ frame[q].remote = <<"get-wallet">>
    /\ frame[q].result = Ok(r.address)
    /\ r.userId = "u2" /\ r.status = "READY"
    /\ r.address = AddressOf(r.dynamicServerWalletId)

\* C20: a getAddress that reads a READY record returns the address stored
\* in it at once: it issues no remote call, writes no wallet record, no
\* compatibility record, no copy profile and no audit entry; called again
\* on the same record, it returns the same address as the call before.
C20_ReadyShortCircuit ==
  [][\A p \in Procs, u \in Users :
       (~Running(p) /\ frame'[p] # frame[p] /\ frame'[p].op = "getAddress"
          /\ frame'[p].userId = u /\ StatusOf(u) = "READY") =>
         LET f == frame[p]
             g == frame'[p]
         IN /\ g.pc = "done"
            /\ g.result = Ok(FindUnique(u).address)
            /\ g.remote = <<>>
            /\ g.audits = 0
            /\ UNCHANGED <<serverWallet, wallet, copyProfile, auditLog, nextWalletId>>
            /\ (f.pc = "done" /\ f.op = "getAddress" /\ f.userId = u
                  /\ f.sw = FindUnique(u)) =>
                 g.result = f.result]_vars

\* Only getAddress('u1') has been called, three times: the first call
\* created the wallet, the third read the READY record and returned its
\* address, and the log holds the one entry of the creation.
C20_Witness ==
  \E p \in Procs :
    /\ frame[p].pc = "done" /\ frame[p].op = "getAddress" /\ frame[p].userId = "u1"
    /\ frame[p].uuid = 3
    /\ frame[p].sw.status = "READY"
    /\ frame[p].sw = FindUnique("u1")
    /\ frame[p].result = Ok(frame[p].sw.address)
    /\ ValidAddress(frame[p].sw.address)
    /\ frame[p].remote = <<>>
    /\ phase["u1"] = "firstUse" /\ phase["u2"] = "untouched"
    /\ Len(auditLog) = 1
    /\ \A q \in Procs : ~Running(q)

\* The SERVER_WALLET compatibility records of a user.
CompatOf(u) == {w \in wallet : w.userId = u /\ w.type = "SERVER_WALLET"}

\* C21: when no call for a user is in flight, a creation for the user has
\* succeeded (the user has a compatibility record) and the wallet record is
\* READY, the wallet record holds the address of the remote wallet whose id
\* it holds, and the compatibility record holds the address of the wallet
\* record, also after two creations or rotations ran concurrently.
C21_CompatMirrorsWallet ==
  \A u \in Users :
    (AllFinishedFor(u) /\ CompatOf(u) # {} /\ StatusOf(u) = "READY") =>
      /\ FindUnique(u).address = AddressOf(FindUnique(u).dynamicServerWalletId)
      /\ \A w \in CompatOf(u) : w.address = FindUnique(u).address

\* The actions of the entries the provider writes.
AuditActions ==
  {"SERVER_WALLET_CREATED", "SERVER_WALLET_FAILED", "OWNERSHIP_TRANSFERRED",
   "SIGNING_REQUESTED", "SIGNING_COMPLETED", "SIGNING_FAILED"}

\* C22: every step leaves the audit log as it is or appends one entry to
\* it, whose action is one of the six audit actions: the log of a state is
\* a prefix of the log of every later state, and no entry is removed, moved
\* or changed.
C22_AuditAppendOnly ==
  [][\/ auditLog' = auditLog
     \/ /\ Len(auditLog') = Len(auditLog) + 1
        /\ SubSeq(auditLog', 1, Len(auditLog)) = auditLog
        /\ auditLog'[Len(auditLog')].action \in AuditActions]_vars

\* The log holds four entries of four different actions, written by a
\* creation, a signing call and a revoke.
C22_Witness ==
  /\ Len(auditLog) = 4
  /\ auditLog[1].action = "SERVER_WALLET_CREATED"
  /\ \E i, j, k \in 2..4 :
       /\ auditLog[i].action = "SIGNING_REQUESTED"
       /\ auditLog[j].action = "SIGNING_COMPLETED"
       /\ auditLog[k].action = "SERVER_WALLET_FAILED"

\* The step is a call of getTradingAuthorityProvider.
FactoryCall == factory'.calls = factory.calls + 1

\* C23: a call of getTradingAuthorityProvider that is not the first since
\* the last reset returns the instance the first one returned and
\* constructs nothing, whatever handle it is given and whatever the
\* configuration is by then; the first call, and the first call after a
\* reset, returns an instance constructed by that call, different from
\* every instance constructed before.
C23_FactorySingleton ==
  [][FactoryCall =>
       /\ factory'.returned # NoProvider
       /\ factory.first # NoProvider =>
            /\ factory'.returned = factory.first
            /\ factory'.created = factory.created
       /\ factory.first = NoProvider =>
            /\ factory'.created = factory.created + 1
            /\ factory'.returned.id = factory'.created
            /\ factory'.returned.prisma = factory'.passed]_vars

\* After a reset, a second instance has been constructed, and a later call
\* given another handle under another configuration has returned it.
C23_Witness ==
  /\ factory.returned = factory.first
  /\ factory.returned.id = 2
  /\ factory.returned.prisma # factory.passed
  /\ factory.returned.config.DYNAMIC_API_KEY # factory.config.DYNAMIC_API_KEY
  /\ factory.returned.config.NODE_ENV # factory.config.NODE_ENV
  /\ factory.calls = 3

\* C24: a call of getTradingAuthorityProvider that finds no cached instance
\* constructs the remote-backed provider when DYNAMIC_API_KEY is set and
\* NODE_ENV is production, and the mock provider in every other case.
C24_RemoteIffKeyAndProduction ==
  [][(FactoryCall /\ factory.provider = NoProvider) =>
       /\ factory'.provider = factory'.returned
       /\ factory'.returned.config = factory.config
       /\ (factory'.returned.kind = "dynamic") <=>
            (factory.config.DYNAMIC_API_KEY = "set"
               /\ factory.config.NODE_ENV = "production")
       /\ (factory'.returned.kind = "mock") <=>
            (factory.config.DYNAMIC_API_KEY # "set"
               \/ factory.config.NODE_ENV # "production")]_vars

\* A third instance has been constructed after two resets, under a
\* configuration with a key in production: it is the remote-backed provider.
C24_Witness ==
  /\ factory.created = 3
  /\ factory.provider.kind = "dynamic"
  /\ factory.provider.config = Config("set", "production")
  /\ factory.calls = 3

\* Process p issues a request, first or retried, to a remote signing
\* endpoint.
SigningRequest(p) == frame[p].pc = "sign_remote" /\ frame'[p] # frame[p]

\* C25: a request to a remote signing endpoint for a user is issued only
\* while the wallet record of that user is READY, also with a revoke for
\* the user running concurrently.
C25_SignsOnlyWhileReady ==
  [][\A p \in Procs :
       SigningRequest(p) => StatusOf(frame[p].userId) = "READY"]_vars

\* C26: when the remote creation of a rotate fails, the rotate goes to the
\* catch of createServerWallet with the error of the remote call, sets the
\* status of the record to FAILED and leaves its remote wallet id and its
\* address as they are, appends SERVER_WALLET_FAILED as its only audit
\* entry and throws SERVER_WALLET_CREATION_FAILED.
C26_RotateFailureKeepsWallet ==
  [][\A p \in Procs : RotateStep(p) =>
       LET f == frame[p]
           g == frame'[p]
           u == g.userId
       IN /\ (f.pc = "csw_remote" /\ g.pc \notin {"csw_remote", "csw_write"}) =>
               /\ g.pc = "csw_catch"
               /\ RemoteFailure(g.error)
               /\ g.sw # NoRow
               /\ UNCHANGED <<serverWallet, wallet, copyProfile, auditLog>>
          /\ f.pc = "csw_catch" =>
               /\ g.pc = "csw_catch_audit"
               /\ \E r \in RecordsOf(u) :
                    /\ r.id = f.sw.id
                    /\ serverWallet' =
                         (serverWallet \ {r}) \cup {[r EXCEPT !.status = "FAILED"]}
               /\ UNCHANGED <<wallet, copyProfile, auditLog>>
          /\ f.pc = "csw_catch_audit" =>
               /\ g.pc = "done"
               /\ g.result.kind = "error"
               /\ g.result.error.code = "SERVER_WALLET_CREATION_FAILED"
               /\ auditLog' = Append(auditLog,
                    AuditEntry(u, "SERVER_WALLET_FAILED", 0, <<f.error.message>>))
               /\ g.audits = 1
               /\ UNCHANGED <<serverWallet, wallet, copyProfile>>]_vars

\* A rotate of the READY wallet of u1 has thrown
\* SERVER_WALLET_CREATION_FAILED: the record is FAILED with the address and
\* the remote wallet id of the first creation, and the log holds
\* SERVER_WALLET_FAILED and no OWNERSHIP_TRANSFERRED.
C26_Witness ==
  \E p \in Procs :
    /\ frame[p].pc = "done" /\ frame[p].op = "rotate" /\ frame[p].userId = "u1"
    /\ frame[p].result.error.code = "SERVER_WALLET_CREATION_FAILED"
    /\ frame[p].sw.status = "READY"
    /\ FindUnique("u1") = [frame[p].sw EXCEPT !.status = "FAILED"]
    /\ ValidAddress(FindUnique("u1").address)
    /\ EntriesOf("u1", "SERVER_WALLET_FAILED") # {}
    /\ EntriesOf("u1", "OWNERSHIP_TRANSFERRED") = {}
    /\ Len(auditLog) = 2

\* C27: a rotate for a user without a wallet record throws NOT_FOUND at
\* once: it issues no remote call, writes no wallet record, no
\* compatibility record, no copy profile and no audit entry.
C27_RotateWithoutRecord ==
  [][\A p \in Procs, u \in Users :
       (~Running(p) /\ frame'[p] # frame[p] /\ frame'[p].op = "rotate"
          /\ frame'[p].userId = u /\ FindUnique(u) = NoRow) =>
         /\ frame'[p].pc = "done"
         /\ frame'[p].result.kind = "error"
         /\ frame'[p].result.error.code = "NOT_FOUND"
         /\ frame'[p].remote = <<>>
         /\ frame'[p].audits = 0
         /\ UNCHANGED <<serverWallet, wallet, copyProfile, auditLog, nextWalletId>>]_vars

\* A rotate for u1, which has no record, has thrown NOT_FOUND: u1 still has
\* no wallet record and no compatibility record, and the log is empty.
C27_Witness ==
  \E p \in Procs :
    /\ frame[p].pc = "done" /\ frame[p].op = "rotate" /\ frame[p].userId = "u1"
    /\ frame[p].result.error.code = "NOT_FOUND"
    /\ RecordsOf("u1") = {}
    /\ CompatOf("u1") = {}
    /\ auditLog = <<>>

\* Process p takes a step of a signing call, its first one included.
SigningStep(p) == frame'[p] # frame[p] /\ frame'[p].op \in SigningOps

\* C28: no step of signTypedData, signMessage or executeTransaction,
\* whatever its outcome, changes a wallet record, a compatibility record or
\* a copy profile; a step leaves the audit log as it is or appends one
\* entry of the call's user to it.
C28_SigningWritesOnlyAudit ==
  [][\A p \in Procs : SigningStep(p) =>
       /\ UNCHANGED <<serverWallet, wallet, copyProfile, nextWalletId>>
       /\ \/ auditLog' = auditLog
          \/ /\ Len(auditLog') = Len(auditLog) + 1
             /\ SubSeq(auditLog', 1, Len(auditLog)) = auditLog
             /\ auditLog'[Len(auditLog')].userId = frame'[p].userId
             /\ auditLog'[Len(auditLog')].correlationId = frame'[p].uuid]_vars

\* Two signing calls on the READY wallet of a user have ended, one with a
\* signature and one with SIGNING_UNAVAILABLE: the wallet record is the one
\* both read, and the log holds the entry of the creation and their four.
C28_Witness ==
  \E p, q \in Procs :
    /\ frame[p].pc = "done" /\ frame[p].op \in SigningOps
    /\ frame[p].result.kind = "ok"
    /\ frame[q].pc = "done" /\ frame[q].op \in SigningOps
    /\ frame[q].result.error.code = "SIGNING_UNAVAILABLE"
    /\ frame[q].userId = frame[p].userId
    /\ frame[p].sw.status = "READY"
    /\ FindUnique(frame[p].userId) = frame[p].sw
    /\ FindUnique(frame[q].userId) = frame[q].sw
    /\ Len(auditLog) = 5

====
